---- MODULE Spec2Model ----
(***************************************************************************)
(* Model of the chat assistant: the streaming-response parser streamChat,  *)
(* the Index page that drives it, the useVoiceResponse hook, the chat edge *)
(* function and the signup trigger.                                        *)
(*                                                                         *)
(* Text is modelled as a sequence of tokens.  A token stands for a fixed   *)
(* piece of text:                                                          *)
(*   "NL"    the newline character                                         *)
(*   "CR"    the carriage return character                                 *)
(*   "SP"    a space                                                       *)
(*   "DATA"  the six characters  data:<space>                              *)
(*   "COLON" the character  :                                              *)
(*   "EVENT" the text  event: message   (a non-data SSE field)             *)
(*   "J1"    the text  {"choices":[{"delta":{"content":"                   *)
(*   "J2"    the text  "}}]}                                               *)
(*   "DONE"  the text  [DONE]                                              *)
(*   "c1", "c2", ...  one character of delta content each                  *)
(***************************************************************************)
EXTENDS Integers, Sequences, FiniteSets, TLC

VARIABLES
    \* ---- streamChat (one invocation) ----
    body,            \* the whole response body the endpoint returns
    pos,             \* number of tokens of body already handed out by reader.read()
    textBuffer,      \* streamChat's textBuffer
    pc,              \* position of streamChat: "idle", "fetch", "read", "settled"
    calls,           \* log of the callbacks streamChat has made, in order
    \* ---- Index page / useVoiceResponse ----
    isVoiceEnabled,  \* useVoiceResponse state
    capturedVoice,   \* isVoiceEnabled as closed over by the running handleSendMessage
    isTyping,        \* Index state
    assistantContent,\* local of handleSendMessage
    spoken,          \* texts for which speak() went on to request text-to-speech
    sends,           \* number of handleSendMessage calls so far
    isSpeaking,      \* useVoiceResponse state
    audioRef,        \* audioRef.current: 0 for null, else the number of the speak call
    playing,         \* the Audio objects that are playing
    ttsPending,      \* the speak calls that await the text-to-speech function
    messages,        \* Index state: the message list
    now,             \* Date.now()
    userMessageId,   \* userMessage.id of the running handleSendMessage
    capturedMessages,\* messages as closed over by the running handleSendMessage
    \* ---- streamChat: building the request from messages and files ----
    argMessages,     \* the messages argument
    argFiles,        \* the files argument
    fileContents,    \* streamChat's fileContents
    fileIdx,         \* the file the for loop is at
    processedMessages, \* the messages put in the request body
    fpc,             \* "off", "files", "built"
    \* ---- chat edge function ----
    apiKey,          \* whether LOVABLE_API_KEY is configured
    hreq,            \* per request: what the client sent
    hpc,             \* per request: "none", "gateway", "responded"
    gateway,         \* per request: what the gateway answered
    hresp,           \* per request: the response returned
    \* ---- signup trigger ----
    settingsOk,      \* whether app.settings.* are set
    users,           \* rows of auth.users
    netQueue,        \* the net.http_post requests made, in order
    inserted,        \* the rows inserted so far, in order
    stmt             \* the outcome of the last SQL statement

streamVars == <<body, pos, textBuffer, pc, calls>>
uiVars == <<isVoiceEnabled, capturedVoice, isTyping, assistantContent, spoken, sends>>
audioVars == <<isSpeaking, audioRef, playing, ttsPending>>
filesVars == <<argMessages, argFiles, fileContents, fileIdx, processedMessages, fpc>>
handlerVars == <<apiKey, hreq, hpc, gateway, hresp>>
triggerVars == <<settingsOk, users, netQueue, inserted, stmt>>
chatVars == <<messages, now, userMessageId, capturedMessages>>
pageVars == <<streamVars, uiVars, audioVars, chatVars>>
vars == <<streamVars, uiVars, audioVars, chatVars, filesVars, handlerVars, triggerVars>>

\* ------------------------------------------------------------------ bounds
MaxLines == 3
MaxSends == 2
MaxMessages == 3
MaxFiles == 2
MaxRequests == 2
MaxRows == 3

\* ------------------------------------------------------------ text helpers
Whitespace == {"NL", "CR", "SP"}

RECURSIVE TrimStart(_)
TrimStart(s) ==
    IF s # <<>> /\ Head(s) \in Whitespace THEN TrimStart(Tail(s)) ELSE s

RECURSIVE TrimEnd(_)
TrimEnd(s) ==
    IF s # <<>> /\ s[Len(s)] \in Whitespace THEN TrimEnd(SubSeq(s, 1, Len(s) - 1)) ELSE s

\* String.prototype.trim
Trim(s) == TrimEnd(TrimStart(s))

\* String.prototype.indexOf("\n"), 1-based; 0 stands for -1
IndexOfNewline(s) ==
    IF \E i \in 1..Len(s) : s[i] = "NL"
    THEN CHOOSE i \in 1..Len(s) : s[i] = "NL" /\ \A j \in 1..(i - 1) : s[j] # "NL"
    ELSE 0

StartsWith(s, tok) == s # <<>> /\ Head(s) = tok

EndsWith(s, tok) == s # <<>> /\ s[Len(s)] = tok

\* String.prototype.split("\n")
RECURSIVE SplitNewline(_)
SplitNewline(s) ==
    LET nl == IndexOfNewline(s) IN
    IF nl = 0 THEN <<s>>
    ELSE <<SubSeq(s, 1, nl - 1)>> \o SplitNewline(SubSeq(s, nl + 1, Len(s)))

RECURSIVE Concat(_)
Concat(ss) == IF ss = <<>> THEN <<>> ELSE Head(ss) \o Concat(Tail(ss))

\* ------------------------------------------------------------ JSON payload
Structural == {"NL", "CR", "SP", "DATA", "COLON", "EVENT", "J1", "J2", "DONE"}

IsContentText(s) == \A i \in 1..Len(s) : s[i] \notin Structural

\* The body of the try block: JSON.parse(jsonStr) followed by
\* parsed.choices?.[0]?.delta?.content.  threw = TRUE when JSON.parse throws;
\* content = <<>> is the empty string (falsy).
ParseDelta(jsonStr) ==
    IF Len(jsonStr) >= 2 /\ Head(jsonStr) = "J1" /\ jsonStr[Len(jsonStr)] = "J2"
       /\ IsContentText(SubSeq(jsonStr, 2, Len(jsonStr) - 1))
    THEN [threw |-> FALSE, content |-> SubSeq(jsonStr, 2, Len(jsonStr) - 1)]
    ELSE [threw |-> TRUE, content |-> <<>>]

\* --------------------------------------------------- streamChat: read loop
\* DrainLines with the texts of one chunk handed to onDelta last line first
RECURSIVE DrainLines_Reversed(_, _)
DrainLines_Reversed(buf, out) ==
    LET newlineIndex == IndexOfNewline(buf) IN
    IF newlineIndex = 0
    THEN [textBuffer |-> buf, out |-> out, streamDone |-> FALSE]
    ELSE
      LET line0 == SubSeq(buf, 1, newlineIndex - 1)
          rest  == SubSeq(buf, newlineIndex + 1, Len(buf))
          line  == IF EndsWith(line0, "CR") THEN SubSeq(line0, 1, Len(line0) - 1) ELSE line0
      IN
      IF StartsWith(line, "COLON") \/ Trim(line) = <<>> THEN DrainLines_Reversed(rest, out)
      ELSE IF ~StartsWith(line, "DATA") THEN DrainLines_Reversed(rest, out)
      ELSE
        LET jsonStr == Trim(Tail(line)) IN
        IF jsonStr = <<"DONE">>
        THEN [textBuffer |-> rest, out |-> out, streamDone |-> TRUE]
        ELSE
          LET p == ParseDelta(jsonStr) IN
          IF p.threw
          THEN [textBuffer |-> line \o <<"NL">> \o rest, out |-> out, streamDone |-> FALSE]
          ELSE DrainLines_Reversed(rest, IF p.content # <<>> THEN <<p.content>> \o out ELSE out)

\* The inner while loop over textBuffer.  out collects the texts passed to
\* onDelta, in order.
RECURSIVE DrainLines(_, _)
DrainLines(buf, out) ==
    LET newlineIndex == IndexOfNewline(buf) IN
    IF newlineIndex = 0
    THEN [textBuffer |-> buf, out |-> out, streamDone |-> FALSE]
    ELSE
      LET line0 == SubSeq(buf, 1, newlineIndex - 1)
          rest  == SubSeq(buf, newlineIndex + 1, Len(buf))
          line  == IF EndsWith(line0, "CR") THEN SubSeq(line0, 1, Len(line0) - 1) ELSE line0
      IN
      IF StartsWith(line, "COLON") \/ Trim(line) = <<>> THEN DrainLines(rest, out)
      ELSE IF ~StartsWith(line, "DATA") THEN DrainLines(rest, out)
      ELSE
        LET jsonStr == Trim(Tail(line)) IN
        IF jsonStr = <<"DONE">>
        THEN [textBuffer |-> rest, out |-> out, streamDone |-> TRUE]
        ELSE
          LET p == ParseDelta(jsonStr) IN
          IF p.threw
          THEN [textBuffer |-> line \o <<"NL">> \o rest, out |-> out, streamDone |-> FALSE]
          ELSE DrainLines(rest, IF p.content # <<>> THEN Append(out, p.content) ELSE out)

\* ------------------------------------------------- streamChat: final flush
\* FlushLines with a break, instead of nothing, in the catch
RECURSIVE FlushLines_StopsAtBadLine(_)
FlushLines_StopsAtBadLine(raws) ==
    IF raws = <<>> THEN <<>>
    ELSE
      LET raw == Head(raws) IN
      IF raw = <<>> \/ StartsWith(raw, "COLON") THEN FlushLines_StopsAtBadLine(Tail(raws))
      ELSE IF ~StartsWith(raw, "DATA") THEN FlushLines_StopsAtBadLine(Tail(raws))
      ELSE
        LET jsonStr == Trim(Tail(raw)) IN
        IF jsonStr = <<"DONE">> THEN FlushLines_StopsAtBadLine(Tail(raws))
        ELSE
          LET p == ParseDelta(jsonStr) IN
          IF p.threw THEN <<>>
          ELSE IF p.content # <<>>
          THEN <<p.content>> \o FlushLines_StopsAtBadLine(Tail(raws))
          ELSE FlushLines_StopsAtBadLine(Tail(raws))

RECURSIVE FlushLines(_)
FlushLines(raws) ==
    IF raws = <<>> THEN <<>>
    ELSE
      LET raw == Head(raws) IN
      IF raw = <<>> \/ StartsWith(raw, "COLON") THEN FlushLines(Tail(raws))
      ELSE IF ~StartsWith(raw, "DATA") THEN FlushLines(Tail(raws))
      ELSE
        LET jsonStr == Trim(Tail(raw)) IN
        IF jsonStr = <<"DONE">> THEN FlushLines(Tail(raws))
        ELSE
          LET p == ParseDelta(jsonStr) IN
          IF ~p.threw /\ p.content # <<>>
          THEN <<p.content>> \o FlushLines(Tail(raws))
          ELSE FlushLines(Tail(raws))

FinalFlush(buf) ==
    IF Trim(buf) # <<>> THEN FlushLines(SplitNewline(buf)) ELSE <<>>

\* ------------------------------------------------------- response bodies
LineKinds == {"good", "goodcr", "trunc", "empty", "done", "comment", "blank", "event"}

\* The text of the i-th line of a body; the content of a delta names the line.
ContentOf(i) == "c" \o ToString(i)

LineText(kind, i) ==
    CASE kind = "good"      -> <<"DATA", "J1", ContentOf(i), "J2">>
      [] kind = "goodcr"    -> <<"DATA", "J1", ContentOf(i), "J2", "CR">>
      [] kind = "trunc"     -> <<"DATA", "J1", ContentOf(i)>>
      [] kind = "empty"     -> <<"DATA", "J1", "J2">>
      [] kind = "done"      -> <<"DATA", "DONE">>
      [] kind = "comment"   -> <<"COLON", "SP">>
      [] kind = "blank"     -> <<>>
      [] kind = "event"     -> <<"EVENT">>

\* kinds: the kinds of the lines; terminated: whether the last line ends in a newline
RECURSIVE BodyFrom(_, _, _)
BodyFrom(kinds, i, terminated) ==
    IF i > Len(kinds) THEN <<>>
    ELSE LineText(kinds[i], i)
         \o (IF i < Len(kinds) \/ terminated THEN <<"NL">> ELSE <<>>)
         \o BodyFrom(kinds, i + 1, terminated)

Bodies ==
    { BodyFrom(kinds, 1, t) :
        kinds \in UNION { [1..n -> LineKinds] : n \in 0..MaxLines }, t \in BOOLEAN }

\* ------------------------------------------------------- the message list
WelcomeMessage == [id |-> 0, role |-> "assistant", content |-> <<"WELCOME">>]

UserMessage(id, content) == [id |-> id, role |-> "user", content |-> content]

\* the updater of updateAssistantMessage; t is Date.now() when it runs
UpdateAssistantMessage(prev, content, t) ==
    IF prev # <<>> /\ prev[Len(prev)].role = "assistant"
    THEN [i \in 1..Len(prev) |->
            IF i = Len(prev) THEN [prev[i] EXCEPT !.content = content] ELSE prev[i]]
    ELSE Append(prev, [id |-> t + 1, role |-> "assistant", content |-> content])

\* updateAssistantMessage for each text of out: the list after the updaters ran
RECURSIVE ApplyDeltas(_, _, _, _)
ApplyDeltas(prev, content, out, t) ==
    IF out = <<>> THEN prev
    ELSE ApplyDeltas(UpdateAssistantMessage(prev, content \o Head(out), t),
                     content \o Head(out), Tail(out), t)

\* RemoveMessage dropping the last message of the list instead
RemoveMessage_Last(prev, id) ==
    IF prev = <<>> THEN prev ELSE SubSeq(prev, 1, Len(prev) - 1)

\* the updater of onError and of the catch: prev.filter(m => m.id !== id)
RemoveMessage(prev, id) == SelectSeq(prev, LAMBDA m : m.id # id)

\* -------------------------------------------------------------- callbacks
DeltaCall(text) == [cb |-> "onDelta", text |-> text]
DoneCall == [cb |-> "onDone", text |-> <<>>]
ErrorCall(msg) == [cb |-> "onError", text |-> <<msg>>]

DeltaCalls(out) == [i \in 1..Len(out) |-> DeltaCall(out[i])]

\* the texts passed to onDelta so far, in order
Deltas == LET d == SelectSeq(calls, LAMBDA c : c.cb = "onDelta")
          IN [i \in 1..Len(d) |-> d[i].text]

Count(cb) == Len(SelectSeq(calls, LAMBDA c : c.cb = cb))

\* useVoiceResponse.speak up to its first await: the guard.  voice is the
\* isVoiceEnabled the speak callback was created with.
SpeakRequests(voice, text) ==
    IF ~voice \/ Trim(text) = <<>> THEN <<>> ELSE <<text>>

\* the onDone callback of handleSendMessage
OnDoneSpeaks(voice, content) ==
    IF voice /\ content # <<>> THEN SpeakRequests(voice, content) ELSE <<>>

\* onDelta (updateAssistantMessage) for each text of out, streamChat goes on
Deliver(out) ==
    /\ calls' = calls \o DeltaCalls(out)
    /\ assistantContent' = assistantContent \o Concat(out)
    /\ messages' = ApplyDeltas(messages, assistantContent, out, now)
    /\ UNCHANGED <<isVoiceEnabled, capturedVoice, isTyping, spoken, sends, audioVars>>
    /\ UNCHANGED <<now, userMessageId, capturedMessages>>

\* onDelta for each text of out, then onDone; streamChat returns
Finish(out) ==
    /\ calls' = calls \o DeltaCalls(out) \o <<DoneCall>>
    /\ assistantContent' = assistantContent \o Concat(out)
    /\ isTyping' = FALSE
    /\ spoken' = spoken \o OnDoneSpeaks(capturedVoice, assistantContent')
    /\ IF spoken' # spoken
       THEN /\ isSpeaking' = TRUE
            /\ ttsPending' = ttsPending \cup {Len(spoken')}
       ELSE UNCHANGED <<isSpeaking, ttsPending>>
    /\ pc' = "settled"
    /\ messages' = ApplyDeltas(messages, assistantContent, out, now)
    /\ UNCHANGED <<isVoiceEnabled, capturedVoice, sends, audioRef, playing>>
    /\ UNCHANGED <<now, userMessageId, capturedMessages>>

\* the given onError calls; streamChat returns
Fail(errorCalls) ==
    /\ calls' = calls \o errorCalls
    /\ isTyping' = FALSE
    /\ pc' = "settled"
    /\ messages' = RemoveMessage(messages, userMessageId)
    /\ UNCHANGED <<isVoiceEnabled, capturedVoice, assistantContent, spoken, sends, audioVars>>
    /\ UNCHANGED <<now, userMessageId, capturedMessages>>

\* ------------------------------------------------- streamChat: the request
ErrorStatuses == {402, 429, 500}
ErrorBodies == {"error", "noerror", "null", "notjson"}

\* NotOkCalls without the return after the onError of status 429
NotOkCalls_NoReturn(status, errorBody) ==
    (IF status = 429 THEN <<ErrorCall("Rate limit exceeded")>> ELSE <<>>)
    \o (IF status = 402 THEN <<ErrorCall("AI credits exhausted")>>
        ELSE IF errorBody = "error" THEN <<ErrorCall("errorData.error")>>
        ELSE IF errorBody = "notjson" THEN <<ErrorCall("Network error")>>
        ELSE IF errorBody = "noerror" THEN <<ErrorCall("Request failed with status")>>
        ELSE <<ErrorCall("TypeError")>>)

\* the callbacks made when resp.ok is false
NotOkCalls(status, errorBody) ==
    IF status = 429 THEN <<ErrorCall("Rate limit exceeded")>>
    ELSE IF status = 402 THEN <<ErrorCall("AI credits exhausted")>>
    ELSE IF errorBody = "error" THEN <<ErrorCall("errorData.error")>>
    ELSE IF errorBody = "notjson" THEN <<ErrorCall("Network error")>>
    ELSE IF errorBody = "noerror" THEN <<ErrorCall("Request failed with status")>>
    ELSE <<ErrorCall("TypeError")>>

\* fetch rejects
FetchThrows ==
    /\ pc = "fetch"
    /\ Fail(<<ErrorCall("Failed to connect to AI service")>>)
    /\ UNCHANGED <<body, pos, textBuffer>>
    /\ UNCHANGED <<filesVars, handlerVars, triggerVars>>

FetchNotOk ==
    /\ pc = "fetch"
    /\ \E status \in ErrorStatuses, errorBody \in ErrorBodies :
          Fail(NotOkCalls(status, errorBody))
    /\ UNCHANGED <<body, pos, textBuffer>>
    /\ UNCHANGED <<filesVars, handlerVars, triggerVars>>

FetchNoBody ==
    /\ pc = "fetch"
    /\ Fail(<<ErrorCall("No response body received")>>)
    /\ UNCHANGED <<body, pos, textBuffer>>
    /\ UNCHANGED <<filesVars, handlerVars, triggerVars>>

FetchOk ==
    /\ pc = "fetch"
    /\ pc' = "read"
    /\ UNCHANGED <<body, pos, textBuffer, calls, uiVars, audioVars, chatVars>>
    /\ UNCHANGED <<filesVars, handlerVars, triggerVars>>

\* reader.read() resolves with a chunk of k tokens
ReadChunk ==
    /\ pc = "read"
    /\ \E k \in 1..(Len(body) - pos) :
         LET value == SubSeq(body, pos + 1, pos + k)
             d == DrainLines(textBuffer \o value, <<>>)
         IN /\ pos' = pos + k
            /\ textBuffer' = d.textBuffer
            /\ IF d.streamDone
               THEN Finish(d.out \o FinalFlush(d.textBuffer))
               ELSE Deliver(d.out) /\ pc' = pc
    /\ UNCHANGED body
    /\ UNCHANGED <<filesVars, handlerVars, triggerVars>>

\* reader.read() resolves with done
ReadDone ==
    /\ pc = "read"
    /\ pos = Len(body)
    /\ Finish(FinalFlush(textBuffer))
    /\ UNCHANGED <<body, pos, textBuffer>>
    /\ UNCHANGED <<filesVars, handlerVars, triggerVars>>

\* reader.read() rejects
ReadThrows ==
    /\ pc = "read"
    /\ Fail(<<ErrorCall("network error")>>)
    /\ UNCHANGED <<body, pos, textBuffer>>
    /\ UNCHANGED <<filesVars, handlerVars, triggerVars>>

\* ------------------------------------- the parts of the system not running
FilesOff ==
    /\ argMessages = <<>>
    /\ argFiles = <<>>
    /\ fileContents = <<>>
    /\ fileIdx = 1
    /\ processedMessages = <<>>
    /\ fpc = "off"

HandlerOff ==
    /\ apiKey = FALSE
    /\ hreq = <<>>
    /\ hpc = <<>>
    /\ gateway = <<>>
    /\ hresp = <<>>

TriggerOff ==
    /\ settingsOk = FALSE
    /\ users = {}
    /\ netQueue = <<>>
    /\ inserted = <<>>
    /\ stmt = "none"

\* ------------------------------------------------ one streamChat invocation
InitStream ==
    /\ body \in Bodies
    /\ pos = 0
    /\ textBuffer = <<>>
    /\ pc = "fetch"
    /\ calls = <<>>
    /\ isVoiceEnabled = FALSE
    /\ capturedVoice = FALSE
    /\ isTyping = TRUE
    /\ assistantContent = <<>>
    /\ spoken = <<>>
    /\ sends = 1
    /\ isSpeaking = FALSE
    /\ audioRef = 0
    /\ playing = {}
    /\ ttsPending = {}
    /\ messages = <<WelcomeMessage, UserMessage(2, <<"hi">>)>>
    /\ now = 2
    /\ userMessageId = 2
    /\ capturedMessages = <<WelcomeMessage>>
    /\ FilesOff /\ HandlerOff /\ TriggerOff

NextStream ==
    \/ FetchThrows
    \/ FetchNotOk
    \/ FetchNoBody
    \/ FetchOk
    \/ ReadChunk
    \/ ReadDone
    \/ ReadThrows

SpecStream == InitStream /\ [][NextStream]_vars

\* ------------------------------------------------------- the Index page
\* the response bodies the page is exercised with
UIKinds == {<<>>, <<"good">>, <<"good", "done">>, <<"trunc", "good">>}
UIBodies == { BodyFrom(kinds, 1, TRUE) : kinds \in UIKinds }

\* what the user may have typed when submitting
TypedMessages == {<<>>, <<"SP">>, <<"hi">>}

\* the send button (a form submit) and the Enter key both call handleSubmit
SubmitWays == {"button", "enter"}

\* handleSubmit with the test of disabled left out
SubmitAccepted_IgnoresDisabled(message, disabled) == Trim(message) # <<>>

\* the guard of ChatInput.handleSubmit
SubmitAccepted(message, disabled) == Trim(message) # <<>> /\ ~disabled

\* ChatInput.handleSubmit calling Index.handleSendMessage, up to the fetch
\* of streamChat.  A submit comes at least two milliseconds after the
\* previous event of the page.
Send ==
    /\ sends < MaxSends
    /\ \E message \in TypedMessages, way \in SubmitWays :
          /\ SubmitAccepted(message, isTyping)
          /\ messages' = Append(messages, UserMessage(now + 2, message))
    /\ now' = now + 2
    /\ userMessageId' = now + 2
    /\ capturedMessages' = messages
    /\ sends' = sends + 1
    /\ isTyping' = TRUE
    /\ capturedVoice' = isVoiceEnabled
    /\ assistantContent' = <<>>
    /\ body' \in UIBodies
    /\ pos' = 0
    /\ textBuffer' = <<>>
    /\ calls' = <<>>
    /\ pc' = "fetch"
    /\ UNCHANGED <<isVoiceEnabled, spoken, audioVars>>
    /\ UNCHANGED <<filesVars, handlerVars, triggerVars>>

\* useVoiceResponse.toggleVoice, with stopSpeaking when voice was enabled
ToggleVoice ==
    /\ isVoiceEnabled' = ~isVoiceEnabled
    /\ IF isVoiceEnabled
       THEN /\ playing' = playing \ {audioRef}
            /\ audioRef' = 0
            /\ isSpeaking' = FALSE
       ELSE UNCHANGED <<playing, audioRef, isSpeaking>>
    /\ UNCHANGED <<streamVars, capturedVoice, isTyping, assistantContent, spoken, sends, ttsPending>>
    /\ UNCHANGED <<chatVars, filesVars, handlerVars, triggerVars>>

\* speak after its awaits: the text-to-speech call failed
SpeakFails ==
    /\ \E n \in ttsPending :
          /\ ttsPending' = ttsPending \ {n}
          /\ isSpeaking' = FALSE
    /\ UNCHANGED <<streamVars, uiVars, audioRef, playing>>
    /\ UNCHANGED <<chatVars, filesVars, handlerVars, triggerVars>>

\* speak after its awaits: the answer has no audioContent
SpeakNoAudio ==
    /\ \E n \in ttsPending : ttsPending' = ttsPending \ {n}
    /\ UNCHANGED <<streamVars, uiVars, isSpeaking, audioRef, playing>>
    /\ UNCHANGED <<chatVars, filesVars, handlerVars, triggerVars>>

\* StartAudio without the pause of the current audio
StartAudio_NoPause(nowPlaying, current, n) == nowPlaying \cup {n}

\* audioRef.current.pause() if there is a current audio, then audio.play()
StartAudio(nowPlaying, current, n) == (nowPlaying \ {current}) \cup {n}

\* speak after its awaits: stop the current audio, play the new one
SpeakPlays ==
    /\ \E n \in ttsPending :
          /\ ttsPending' = ttsPending \ {n}
          /\ playing' = StartAudio(playing, audioRef, n)
          /\ audioRef' = n
    /\ UNCHANGED <<streamVars, uiVars, isSpeaking>>
    /\ UNCHANGED <<chatVars, filesVars, handlerVars, triggerVars>>

\* speak after its awaits: the current audio is stopped, audio.play() rejects
SpeakPlayRejected ==
    /\ \E n \in ttsPending :
          /\ ttsPending' = ttsPending \ {n}
          /\ playing' = playing \ {audioRef}
          /\ audioRef' = n
          /\ isSpeaking' = FALSE
    /\ UNCHANGED <<streamVars, uiVars>>
    /\ UNCHANGED <<chatVars, filesVars, handlerVars, triggerVars>>

\* Index.handleClearChat
ClearChat ==
    /\ messages' = <<WelcomeMessage>>
    /\ UNCHANGED <<now, userMessageId, capturedMessages>>
    /\ UNCHANGED <<streamVars, uiVars, audioVars>>
    /\ UNCHANGED <<filesVars, handlerVars, triggerVars>>

\* audio.onended / audio.onerror
AudioEnds ==
    /\ \E n \in playing :
          /\ playing' = playing \ {n}
          /\ isSpeaking' = FALSE
    /\ UNCHANGED <<streamVars, uiVars, audioRef, ttsPending>>
    /\ UNCHANGED <<chatVars, filesVars, handlerVars, triggerVars>>

\* the page after its first render
Init ==
    /\ body = <<>>
    /\ pos = 0
    /\ textBuffer = <<>>
    /\ pc = "idle"
    /\ calls = <<>>
    /\ isVoiceEnabled = FALSE
    /\ capturedVoice = FALSE
    /\ isTyping = FALSE
    /\ assistantContent = <<>>
    /\ spoken = <<>>
    /\ sends = 0
    /\ isSpeaking = FALSE
    /\ audioRef = 0
    /\ playing = {}
    /\ ttsPending = {}
    /\ messages = <<WelcomeMessage>>
    /\ now = 0
    /\ userMessageId = 0
    /\ capturedMessages = <<WelcomeMessage>>
    /\ FilesOff /\ HandlerOff /\ TriggerOff

Next ==
    \/ Send
    \/ ClearChat
    \/ ToggleVoice
    \/ FetchThrows
    \/ FetchNotOk
    \/ FetchNoBody
    \/ FetchOk
    \/ ReadChunk
    \/ ReadDone
    \/ ReadThrows
    \/ SpeakFails
    \/ SpeakNoAudio
    \/ SpeakPlays
    \/ SpeakPlayRejected
    \/ AudioEnds

Spec == Init /\ [][Next]_vars

\* ------------------------------- streamChat: messages and attached files
FileKinds == {"image", "pdf", "text", "other", "unreadable"}
Roles == {"user", "assistant"}

\* a string content, and a multimodal content array
StringContent(text) == [isArray |-> FALSE, text |-> text, parts |-> <<>>]
ArrayContent(parts) == [isArray |-> TRUE, text |-> "", parts |-> parts]

TextPart(text, file) == [type |-> "text", text |-> text, file |-> file]
ImagePart(file) == [type |-> "image_url", text |-> "data-url", file |-> file]

\* one iteration of the for loop over files: what it pushes to fileContents
FileParts(file) ==
    CASE file.kind = "image"      -> <<ImagePart(file.name)>>
      [] file.kind = "pdf"        -> <<TextPart("PDF Document", file.name), ImagePart(file.name)>>
      [] file.kind = "text"       -> <<TextPart("Document", file.name)>>
      [] file.kind = "other"      -> <<TextPart("Document uploaded", file.name)>>
      [] file.kind = "unreadable" -> <<TextPart("Error reading file", file.name)>>

\* ProcessMessages without the test for the last message
ProcessMessages_EveryUser(msgs, contents) ==
    IF Len(contents) > 0
    THEN [idx \in 1..Len(msgs) |->
            IF msgs[idx].role = "user"
            THEN [role |-> msgs[idx].role,
                  content |-> ArrayContent(<<TextPart(msgs[idx].content.text, "")>> \o contents)]
            ELSE msgs[idx]]
    ELSE msgs

\* the processedMessages expression
ProcessMessages(msgs, contents) ==
    IF Len(contents) > 0
    THEN [idx \in 1..Len(msgs) |->
            IF idx = Len(msgs) /\ msgs[idx].role = "user"
            THEN [role |-> msgs[idx].role,
                  content |-> ArrayContent(<<TextPart(msgs[idx].content.text, "")>> \o contents)]
            ELSE msgs[idx]]
    ELSE msgs

MessageLists ==
    UNION { [1..n -> {[role |-> r, content |-> StringContent(t)] : r \in Roles, t \in {"hi"}}]
              : n \in 0..MaxMessages }

FileName(i) == "f" \o ToString(i)

FileLists ==
    UNION { { [i \in 1..n |-> [name |-> FileName(i), kind |-> ks[i]]] : ks \in [1..n -> FileKinds] }
              : n \in 0..MaxFiles }

\* one iteration of the for loop over files
ProcessFile ==
    /\ fpc = "files"
    /\ fileIdx <= Len(argFiles)
    /\ fileContents' = fileContents \o FileParts(argFiles[fileIdx])
    /\ fileIdx' = fileIdx + 1
    /\ UNCHANGED <<argMessages, argFiles, processedMessages, fpc>>
    /\ UNCHANGED <<pageVars, handlerVars, triggerVars>>

\* after the loop: the request body is built
BuildRequest ==
    /\ fpc = "files"
    /\ fileIdx > Len(argFiles)
    /\ processedMessages' = ProcessMessages(argMessages, fileContents)
    /\ fpc' = "built"
    /\ UNCHANGED <<argMessages, argFiles, fileContents, fileIdx>>
    /\ UNCHANGED <<pageVars, handlerVars, triggerVars>>

PageOff ==
    /\ body = <<>>
    /\ pos = 0
    /\ textBuffer = <<>>
    /\ pc = "idle"
    /\ calls = <<>>
    /\ isVoiceEnabled = FALSE
    /\ capturedVoice = FALSE
    /\ isTyping = FALSE
    /\ assistantContent = <<>>
    /\ spoken = <<>>
    /\ sends = 0
    /\ isSpeaking = FALSE
    /\ audioRef = 0
    /\ playing = {}
    /\ ttsPending = {}
    /\ messages = <<WelcomeMessage>>
    /\ now = 0
    /\ userMessageId = 0
    /\ capturedMessages = <<WelcomeMessage>>

InitFiles ==
    /\ argMessages \in MessageLists
    /\ argFiles \in FileLists
    /\ fileContents = <<>>
    /\ fileIdx = 1
    /\ processedMessages = <<>>
    /\ fpc = "files"
    /\ PageOff /\ HandlerOff /\ TriggerOff

NextFiles ==
    \/ ProcessFile
    \/ BuildRequest

SpecFiles == InitFiles /\ [][NextFiles]_vars

\* ------------------------------------------------- the chat edge function
Requests == 1..MaxRequests
Methods == {"OPTIONS", "POST"}
\* the request body: JSON with messages, JSON without messages, not JSON
RequestBodies == {"messages", "nomessages", "notjson"}
GatewayStatuses == {200, 400, 402, 429, 500, 503}

\* Response.ok
IsOk(status) == status >= 200 /\ status <= 299

NoResponse == [status |-> 0, contentType |-> "", body |-> ""]
NoGateway == [called |-> FALSE, answered |-> FALSE, threw |-> FALSE, status |-> 0]

\* a JSON response with an error field
ErrorResponse(status) == [status |-> status, contentType |-> "application/json", body |-> "error"]

\* the response to the CORS preflight
PreflightResponse == [status |-> 200, contentType |-> "", body |-> "null"]

\* GatewayResponse without the branch for status 402
GatewayResponse_No402(status) ==
    IF ~IsOk(status)
    THEN IF status = 429 THEN ErrorResponse(429)
         ELSE ErrorResponse(500)
    ELSE [status |-> 200, contentType |-> "text/event-stream", body |-> "stream"]

\* the handler after the fetch of the gateway has resolved
GatewayResponse(status) ==
    IF ~IsOk(status)
    THEN IF status = 429 THEN ErrorResponse(429)
         ELSE IF status = 402 THEN ErrorResponse(402)
         ELSE ErrorResponse(500)
    ELSE [status |-> 200, contentType |-> "text/event-stream", body |-> "stream"]

\* the handler up to the fetch of the gateway: TRUE when it gets there
ReachesGateway(method, reqBody, key) ==
    method # "OPTIONS" /\ reqBody # "notjson" /\ key /\ reqBody # "nomessages"

\* the response of a request that does not get to the gateway
EarlyResponse(method) ==
    IF method = "OPTIONS" THEN PreflightResponse ELSE ErrorResponse(500)

\* a request arrives; the handler runs up to the fetch of the gateway
Receive ==
    /\ \E r \in Requests, method \in Methods, reqBody \in RequestBodies :
          /\ hpc[r] = "none"
          /\ hreq' = [hreq EXCEPT ![r] = [method |-> method, body |-> reqBody]]
          /\ IF ReachesGateway(method, reqBody, apiKey)
             THEN /\ gateway' = [gateway EXCEPT ![r].called = TRUE]
                  /\ hpc' = [hpc EXCEPT ![r] = "gateway"]
                  /\ UNCHANGED hresp
             ELSE /\ hresp' = [hresp EXCEPT ![r] = EarlyResponse(method)]
                  /\ hpc' = [hpc EXCEPT ![r] = "responded"]
                  /\ UNCHANGED gateway
    /\ UNCHANGED apiKey
    /\ UNCHANGED <<pageVars, filesVars, triggerVars>>

\* the fetch of the gateway resolves
GatewayAnswers ==
    /\ \E r \in Requests, status \in GatewayStatuses :
          /\ hpc[r] = "gateway"
          /\ gateway' = [gateway EXCEPT ![r].answered = TRUE, ![r].status = status]
          /\ hresp' = [hresp EXCEPT ![r] = GatewayResponse(status)]
          /\ hpc' = [hpc EXCEPT ![r] = "responded"]
    /\ UNCHANGED <<apiKey, hreq>>
    /\ UNCHANGED <<pageVars, filesVars, triggerVars>>

\* the fetch of the gateway rejects
GatewayThrows ==
    /\ \E r \in Requests :
          /\ hpc[r] = "gateway"
          /\ gateway' = [gateway EXCEPT ![r].threw = TRUE]
          /\ hresp' = [hresp EXCEPT ![r] = ErrorResponse(500)]
          /\ hpc' = [hpc EXCEPT ![r] = "responded"]
    /\ UNCHANGED <<apiKey, hreq>>
    /\ UNCHANGED <<pageVars, filesVars, triggerVars>>

InitHandler ==
    /\ apiKey \in BOOLEAN
    /\ hreq = [r \in Requests |-> [method |-> "", body |-> ""]]
    /\ hpc = [r \in Requests |-> "none"]
    /\ gateway = [r \in Requests |-> NoGateway]
    /\ hresp = [r \in Requests |-> NoResponse]
    /\ PageOff /\ FilesOff /\ TriggerOff

NextHandler ==
    \/ Receive
    \/ GatewayAnswers
    \/ GatewayThrows

SpecHandler == InitHandler /\ [][NextHandler]_vars

\* ------------------------------------------------------ the signup trigger
Emails == {"a@x", "b@x"}
Times == {"t1", "t2"}

\* a trigger created AFTER INSERT OR UPDATE
TriggerEvents_WithUpdate == {"INSERT", "UPDATE"}

\* CREATE TRIGGER on_auth_user_created_notify AFTER INSERT ... FOR EACH ROW
TriggerEvents == {"INSERT"}

\* public.notify_new_signup(): the net.http_post it makes and the row it returns
NotifyNewSignup(new) ==
    [request |-> [url |-> "/functions/v1/signup-notification",
                  email |-> new.email, created_at |-> new.created_at],
     ret |-> new]

\* the requests the trigger makes for the rows of a statement, row by row
RECURSIVE TriggerRequests(_, _)
TriggerRequests(event, rows) ==
    IF rows = <<>> \/ event \notin TriggerEvents THEN <<>>
    ELSE <<NotifyNewSignup(Head(rows)).request>> \o TriggerRequests(event, Tail(rows))

NewRow(id, email, time) == [id |-> id, email |-> email, created_at |-> time, confirmed |-> FALSE]

\* INSERT INTO auth.users of one or two rows
InsertUsers ==
    /\ \E n \in 1..2, emails \in [1..2 -> Emails], time \in Times :
          LET rows == [i \in 1..n |-> NewRow(Len(inserted) + i, emails[i], time)] IN
          /\ Len(inserted) + n <= MaxRows
          /\ IF settingsOk
             THEN /\ users' = users \cup { NotifyNewSignup(rows[i]).ret : i \in 1..n }
                  /\ netQueue' = netQueue \o TriggerRequests("INSERT", rows)
                  /\ inserted' = inserted \o rows
                  /\ stmt' = "inserted"
             ELSE \* current_setting raises: the statement is rolled back
                  /\ stmt' = "raised"
                  /\ UNCHANGED <<users, netQueue, inserted>>
    /\ UNCHANGED settingsOk
    /\ UNCHANGED <<pageVars, filesVars, handlerVars>>

\* UPDATE auth.users of one row
UpdateUser ==
    /\ \E u \in users :
          /\ ~u.confirmed
          /\ users' = (users \ {u}) \cup {[u EXCEPT !.confirmed = TRUE]}
          /\ netQueue' = netQueue \o TriggerRequests("UPDATE", <<u>>)
    /\ stmt' = "updated"
    /\ UNCHANGED <<settingsOk, inserted>>
    /\ UNCHANGED <<pageVars, filesVars, handlerVars>>

InitTrigger ==
    /\ settingsOk \in BOOLEAN
    /\ users = {}
    /\ netQueue = <<>>
    /\ inserted = <<>>
    /\ stmt = "none"
    /\ PageOff /\ FilesOff /\ HandlerOff

NextTrigger ==
    \/ InsertUsers
    \/ UpdateUser

SpecTrigger == InitTrigger /\ [][NextTrigger]_vars

\* ------------------------------------------------ the lines of a body
StripCR(l) == IF EndsWith(l, "CR") THEN SubSeq(l, 1, Len(l) - 1) ELSE l

LineIsData(l) == StartsWith(StripCR(l), "DATA")

LinePayload(l) == Trim(Tail(StripCR(l)))

LineIsDone(l) == LineIsData(l) /\ LinePayload(l) = <<"DONE">>

\* a data line whose payload is valid JSON with non-empty delta content
LineIsWellFormed(l) ==
    /\ LineIsData(l)
    /\ ~LineIsDone(l)
    /\ ~ParseDelta(LinePayload(l)).threw
    /\ ParseDelta(LinePayload(l)).content # <<>>

\* a data line whose payload makes the try block throw
LineIsMalformed(l) ==
    LineIsData(l) /\ ~LineIsDone(l) /\ ParseDelta(LinePayload(l)).threw

BodyLines == SplitNewline(body)

\* index of the first [DONE] line, or one past the last line
FirstDone ==
    IF \E i \in 1..Len(BodyLines) : LineIsDone(BodyLines[i])
    THEN CHOOSE i \in 1..Len(BodyLines) :
            LineIsDone(BodyLines[i]) /\ \A j \in 1..(i - 1) : ~LineIsDone(BodyLines[j])
    ELSE Len(BodyLines) + 1

RECURSIVE LineEnd(_)
\* the number of tokens of body up to and including the newline of line i
LineEnd(i) == IF i = 0 THEN 0 ELSE LineEnd(i - 1) + Len(BodyLines[i]) + 1

\* line i ends in a newline (only the last piece of the split does not)
LineIsTerminated(i) == i < Len(BodyLines)

Delivered(i) == \E n \in 1..Len(Deltas) : Deltas[n] = <<ContentOf(i)>>

\* the line a delivered text comes from (0: from no line)
LineOf(text) ==
    IF \E i \in 1..Len(BodyLines) : text = <<ContentOf(i)>>
    THEN CHOOSE i \in 1..Len(BodyLines) : text = <<ContentOf(i)>>
    ELSE 0

\* what streamChat delivers when the whole body arrives as one chunk
OneChunkDeltas ==
    IF body = <<>> THEN <<>>
    ELSE LET d == DrainLines(body, <<>>) IN d.out \o FinalFlush(d.textBuffer)

Settled == pc = "settled"
Completed == Settled /\ Count("onDone") = 1

\* ---------------------------------------------------------------- claims
\* C1: for a fixed body the sequence of onDelta calls is the same for every
\* way of splitting the body into chunks: a completed run has delivered what
\* the one-chunk run delivers.
C1_ChunkingIndependent == Completed => Deltas = OneChunkDeltas

\* C2: onDelta is called in the order of the data lines of the body, each
\* line's content at most once: the delivered texts are contents of lines of
\* the body, with strictly increasing line numbers.
C2_InOrderAtMostOnce ==
    /\ \A n \in 1..Len(Deltas) :
          /\ LineOf(Deltas[n]) # 0
          /\ LineIsWellFormed(BodyLines[LineOf(Deltas[n])])
    /\ \A m, n \in 1..Len(Deltas) : m < n => LineOf(Deltas[m]) < LineOf(Deltas[n])

\* the first complete line of the buffer is one that was put back by the catch
PutBack(buf) ==
    /\ IndexOfNewline(buf) # 0
    /\ LineIsMalformed(SubSeq(buf, 1, IndexOfNewline(buf) - 1))

C2_Witness ==
    /\ Completed
    /\ PutBack(textBuffer)
    /\ Len(Deltas) >= 2

\* the messages of the onError calls that report a failed request or read
TransportErrors ==
    {"Failed to connect to AI service", "Rate limit exceeded", "AI credits exhausted",
     "errorData.error", "Network error", "Request failed with status", "TypeError",
     "No response body received", "network error"}

\* C3: a data line whose payload is not valid JSON never leads to onError and
\* never makes other lines get lost: when the body has ended, every
\* well-formed data line with content before [DONE] has been delivered and
\* onDone has been called.
C3_MalformedTolerated ==
    /\ \A n \in 1..Len(calls) :
          calls[n].cb = "onError" => calls[n].text[1] \in TransportErrors
    /\ (Settled /\ Count("onError") = 0) =>
          /\ Count("onDone") = 1
          /\ \A i \in 1..Len(BodyLines) :
                (i < FirstDone /\ LineIsWellFormed(BodyLines[i])) => Delivered(i)

C3_Witness ==
    /\ Completed
    /\ \E i, j \in 1..Len(BodyLines) :
          /\ i < j /\ j < FirstDone
          /\ LineIsMalformed(BodyLines[i])
          /\ LineIsWellFormed(BodyLines[j])
          /\ Delivered(j)

\* C4: while the stream is open every well-formed data line has been
\* delivered once the chunk holding its newline has been processed, that is
\* before the next read.
C4_Incremental ==
    pc = "read" =>
       \A i \in 1..Len(BodyLines) :
          (/\ i < FirstDone
           /\ LineIsTerminated(i)
           /\ LineEnd(i) <= pos
           /\ LineIsWellFormed(BodyLines[i])) => Delivered(i)

\* C9: a settled streamChat has called exactly one of onDone and onError,
\* once, as its last callback; one that has not settled has called neither.
C9_ExactlyOneTerminal ==
    /\ Settled <=> Count("onDone") + Count("onError") = 1
    /\ Count("onDone") + Count("onError") <= 1
    /\ \A n \in 1..(Len(calls) - 1) : calls[n].cb = "onDelta"

C9_Witness ==
    /\ Settled
    /\ Count("onError") = 1
    /\ Len(Deltas) >= 1

\* C10: no onDelta is made for a data line that comes after the first
\* [DONE] line of the body.
C10_NothingAfterDone ==
    \A n \in 1..Len(Deltas) : LineOf(Deltas[n]) < FirstDone

\* C5: when a response completes, it is spoken if and only if voice is
\* enabled at that moment and the response is not empty.
C5_SpeaksPerLatestToggle ==
    [][(pc = "read" /\ pc' = "settled" /\ calls'[Len(calls')].cb = "onDone") =>
         ((spoken' # spoken) <=> (isVoiceEnabled /\ assistantContent' # <<>>))]_vars

\* the file a part of fileContents comes from, as a position in files
FileIndex(part) == CHOOSE i \in 1..Len(argFiles) : argFiles[i].name = part.file

\* C6: with files attached, only the last message, and only if its role is
\* user, gets the file parts: its content becomes the text part followed by
\* the parts of the files in the order of the files; every other message,
\* and every message when there are no files, is sent unchanged.
C6_FilesOnLastUserMessage ==
    fpc = "built" =>
      LET n == Len(argMessages)
          attach == n > 0 /\ Len(argFiles) > 0 /\ argMessages[n].role = "user"
      IN
      /\ Len(processedMessages) = n
      /\ \A i \in 1..n : (i < n \/ ~attach) => processedMessages[i] = argMessages[i]
      /\ attach =>
           LET c == processedMessages[n].content
               fp == Tail(c.parts)
           IN
           /\ processedMessages[n].role = "user"
           /\ c.isArray
           /\ c.parts # <<>>
           /\ Head(c.parts) = TextPart(argMessages[n].content.text, "")
           /\ \A k \in 1..Len(fp) : \E i \in 1..Len(argFiles) : argFiles[i].name = fp[k].file
           /\ \A i \in 1..Len(argFiles) : \E k \in 1..Len(fp) : fp[k].file = argFiles[i].name
           /\ \A k, l \in 1..Len(fp) : k < l => FileIndex(fp[k]) <= FileIndex(fp[l])
           /\ \A k \in 1..Len(fp) :
                 \E j \in 1..Len(FileParts(argFiles[FileIndex(fp[k])])) :
                    fp[k] = FileParts(argFiles[FileIndex(fp[k])])[j]

C6_Witness ==
    /\ fpc = "built"
    /\ Len(argFiles) = 2
    /\ Len(argMessages) >= 2
    /\ \A i \in 1..Len(argMessages) : argMessages[i].role = "user"
    /\ processedMessages[Len(argMessages)].content.isArray

\* C7: the handler returns the event stream only when the gateway answers
\* OK; 429 gives 429, 402 gives 402, any other gateway failure gives 500; a
\* missing LOVABLE_API_KEY gives 500 without a call to the gateway; every
\* error response is JSON with an error field.
C7_HandlerResponses ==
    \A r \in Requests :
       /\ ~apiKey => ~gateway[r].called
       /\ hpc[r] = "responded" =>
            /\ hresp[r].contentType = "text/event-stream" =>
                  gateway[r].answered /\ IsOk(gateway[r].status) /\ hresp[r].body = "stream"
            /\ (gateway[r].answered /\ IsOk(gateway[r].status)) =>
                  hresp[r].contentType = "text/event-stream"
            /\ (gateway[r].answered /\ gateway[r].status = 429) => hresp[r].status = 429
            /\ (gateway[r].answered /\ gateway[r].status = 402) => hresp[r].status = 402
            /\ (\/ gateway[r].threw
                \/ (gateway[r].answered /\ ~IsOk(gateway[r].status)
                      /\ gateway[r].status \notin {402, 429})) => hresp[r].status = 500
            /\ (hreq[r].method = "POST" /\ ~apiKey) => hresp[r].status = 500
            /\ hresp[r].status >= 400 =>
                  hresp[r].contentType = "application/json" /\ hresp[r].body = "error"

C7_Witness ==
    \E r, q \in Requests :
       /\ hpc[r] = "responded" /\ hresp[r].status = 402
       /\ hpc[q] = "responded" /\ hresp[q].body = "stream"

\* C8: every row inserted into auth.users causes exactly one POST to the
\* signup-notification function with that row's email and created_at, and
\* the row is stored as it was inserted.
C8_OneNotificationPerRow ==
    /\ Len(netQueue) = Len(inserted)
    /\ \A i \in 1..Len(inserted) :
          /\ netQueue[i].url = "/functions/v1/signup-notification"
          /\ netQueue[i].email = inserted[i].email
          /\ netQueue[i].created_at = inserted[i].created_at
          /\ \E u \in users :
                /\ u.id = inserted[i].id
                /\ u.email = inserted[i].email
                /\ u.created_at = inserted[i].created_at
    /\ Cardinality(users) = Len(inserted)

C8_Witness ==
    /\ Len(inserted) >= 2
    /\ stmt = "updated"
    /\ Len(netQueue) >= 2

\* ------------------------------------------------- claims about the page
UserMessagesOf(list) == SelectSeq(list, LAMBDA m : m.role = "user")

AssistantMessagesOf(list) == SelectSeq(list, LAMBDA m : m.role = "assistant")

\* streamChat has been called and has not yet called onDone or onError
InProgress == pc \in {"fetch", "read"}

\* C11: when a delta of an exchange has been received, the last message of
\* the list is the assistant message of that exchange, its content is the
\* concatenation of the deltas received so far, it comes right after the
\* user message of the exchange, and the delta added at most that one message
\* and changed no other.
C11_AssistantMessageGrows ==
    [][(assistantContent' # assistantContent /\ sends' = sends) =>
         LET n == Len(messages') IN
         /\ n >= 2
         /\ messages'[n].role = "assistant"
         /\ messages'[n].content = Concat(Deltas')
         /\ messages'[n - 1].role = "user"
         /\ messages'[n - 1].id = userMessageId
         /\ n <= Len(messages) + 1
         /\ Len(AssistantMessagesOf(messages')) <= Len(AssistantMessagesOf(capturedMessages)) + 1
         /\ \A i \in 1..(n - 1) : messages'[i] = messages[i]]_vars

\* C12: isTyping is true exactly from a send to its onDone or onError, and
\* no submit is accepted while a streamChat call is in progress.
C12_OneSendAtATime ==
    [][/\ isTyping <=> InProgress
       /\ isTyping' <=> InProgress'
       /\ sends' # sends => ~InProgress]_vars

C12_Witness ==
    /\ sends = 2
    /\ pc = "read"
    /\ isTyping

\* C13: the step in which a send fails turns the typing indicator off and
\* takes the user message of that send, and no other user message, out of
\* the list.
C13_FailedSendRemovesUserMessage ==
    [][(InProgress /\ pc' = "settled" /\ calls'[Len(calls')].cb = "onError") =>
         /\ isTyping' = FALSE
         /\ \A i \in 1..Len(messages') : messages'[i].id # userMessageId
         /\ UserMessagesOf(messages')
               = SelectSeq(UserMessagesOf(messages), LAMBDA m : m.id # userMessageId)]_vars

C13_Witness ==
    /\ Settled
    /\ Count("onError") = 1
    /\ sends = 2
    /\ Len(UserMessagesOf(messages)) = 1
    /\ Len(AssistantMessagesOf(messages)) >= 2
    /\ \A i \in 1..Len(messages) : messages[i].id # userMessageId

\* C14: after the step in which a send fails the message list is the list
\* as it was before that send.
C14_FailedSendRestoresList ==
    [][(InProgress /\ pc' = "settled" /\ calls'[Len(calls')].cb = "onError") =>
         messages' = capturedMessages]_vars

\* C15: once the list is the welcome message alone, as Clear Chat leaves it,
\* it stays so until the next send.
C15_ClearedUntilNextSend ==
    [][(messages = <<WelcomeMessage>> /\ sends' = sends) =>
         messages' = <<WelcomeMessage>>]_vars

\* C16: at most one audio is playing at any time.
C16_OneAudioPlaying == Cardinality(playing) <= 1

\* the second speak call plays while the first still awaits text-to-speech
C16_Witness ==
    /\ ttsPending = {1}
    /\ playing = {2}

====
